---- MODULE Spec2Model ----
(***************************************************************************)
(* A model of src/endpoints.py: a FastAPI application whose handlers each  *)
(* run parameterised SQL against one SQLite database of three tables       *)
(* (batch_id, centra, delivery) and build a pydantic response model.       *)
(*                                                                         *)
(* A state is the content of the three tables, SQLite's sqlite_sequence    *)
(* table (AUTOINCREMENT), and the last request with its response.  Every   *)
(* action is one whole handler: connect, statements, commit, response.     *)
(***************************************************************************)
EXTENDS Integers, Sequences, FiniteSets, TLC

VARIABLES
    batch_id,         \* table batch_id: Batch_ID -> row
    centra,           \* table centra:   Centra_ID -> row
    delivery,         \* table delivery: Package_ID -> row
    sqlite_sequence,  \* AUTOINCREMENT bookkeeping: table name -> largest rowid ever used
    generated,        \* history: table name -> every primary key ever generated
    request,          \* the last request: [op, id, body]
    response          \* its response: [status, detail, body]

vars == <<batch_id, centra, delivery, sqlite_sequence, generated, request, response>>

tables == <<batch_id, centra, delivery, sqlite_sequence, generated>>

(***************************************************************************)
(* Bounds of the model.                                                    *)
(***************************************************************************)
MaxRows == 2          \* rows ever inserted per table (except in SpecWeights)
MaxWeightRows == 8    \* batches ever inserted in SpecWeights: more than LIMIT
MaxInt == 2           \* integer payloads (weights, employee counts) are 1 or MaxInt
MaxHour == 1          \* local wall-clock values of a datetime are 0 or MaxHour
MaxOffset == 1        \* UTC offsets of a datetime are 0 or MaxOffset

LIMIT == 7            \* LIMIT 7 of get_last_seven_batches_weights

(***************************************************************************)
(* Values.  SQL NULL and Python None are the empty tuple; a nullable       *)
(* column or an Optional value that is set is the one-element tuple.       *)
(***************************************************************************)
NULL == <<>>
None == <<>>
Some(v) == <<v>>

Min(S) == CHOOSE x \in S : \A y \in S : x <= y
Max(S) == CHOOSE x \in S : \A y \in S : x >= y

Statuses == {"pending", "shipped"}

\* A datetime as a request carries it: a local wall-clock value and a UTC offset.
DateTime(h, z) == [hour |-> h, tz |-> z]

\* The point in time a datetime denotes: its local value less its UTC offset.
\* Python compares timezone-aware datetimes by this.
instant(dt) == dt.hour - dt.tz

\* sqlite3's default adapter binds a datetime parameter as the text
\* isoformat(" "): the local value first, then the offset.
adapt_datetime(dt) == <<dt.hour, dt.tz>>

\* pydantic parses the text of a DATETIME column back into a datetime.
parse_datetime(text) == [hour |-> text[1], tz |-> text[2]]

\* SQLite compares TEXT values bytewise, left to right.
TextLess(a, b) == a[1] < b[1] \/ (a[1] = b[1] /\ a[2] < b[2])

\* A nullable DATETIME column as the value handed to a pydantic field.
row_datetime(col) == IF col = NULL THEN None ELSE Some(parse_datetime(col[1]))

(***************************************************************************)
(* Responses.                                                              *)
(***************************************************************************)
Ok(body) == [status |-> 200, detail |-> "", body |-> body]

HTTPException(code, msg) == [status |-> code, detail |-> msg, body |-> <<>>]

\* An exception no handler catches, raised after or instead of the statements.
ServerError(kind) == [status |-> 500, detail |-> kind, body |-> <<>>]

(***************************************************************************)
(* pydantic models.  A constructor gets keyword arguments (a record of     *)
(* Optional values) and yields Some(model), or None for a ValidationError: *)
(* a required field that is missing or None.                               *)
(***************************************************************************)
BaseModel(required, optional, kw) ==
    IF \A f \in required : f \in DOMAIN kw /\ kw[f] # None
    THEN Some([f \in required \cup optional |->
                 IF f \in required THEN kw[f][1]
                 ELSE IF f \in DOMAIN kw THEN kw[f] ELSE None])
    ELSE None

BatchOptional ==
    {"InTimeWet", "OutTimeWet", "WetWeight", "InTimeDry", "OutTimeDry", "DryWeight",
     "InTimePowder", "OutTimePowder", "PowderWeight", "Package_ID", "WeightRescale"}

Batch(kw) ==
    BaseModel({"Batch_ID", "RawWeight", "InTimeRaw", "Status", "Centra_ID"}, BatchOptional, kw)

RawWeight(kw) == BaseModel({"RawWeight", "InTimeRaw"}, {}, kw)

WetWeight(kw) == BaseModel({"WetWeight", "InTimeWet", "OutTimeWet"}, {}, kw)

DryWeight(kw) == BaseModel({"DryWeight", "InTimeDry", "OutTimeDry"}, {}, kw)

PowderWeight(kw) == BaseModel({"PowderWeight", "InTimePowder", "OutTimePowder"}, {}, kw)

DeliveryInfo(kw) ==
    BaseModel({"Package_ID", "Status", "InDeliveryTime", "ExpeditionType"}, {}, kw)

WeightInfo(kw) == BaseModel({"Batch_ID", "RawWeight", "InTimeRaw"}, {}, kw)

Centra(kw) ==
    BaseModel({"Centra_ID", "CentraName", "CentraAddress", "NumberOfEmployees"}, {}, kw)

\* return Model(...): the model as the body, or a 500 when building it raised.
Return(model) ==
    IF model = None THEN ServerError("ValidationError") ELSE Ok(model[1])

\* return [Model(...) for row in rows]
ReturnList(models) ==
    IF \E i \in 1..Len(models) : models[i] = None
    THEN ServerError("ValidationError")
    ELSE Ok([i \in 1..Len(models) |-> models[i][1]])

(***************************************************************************)
(* SQL.                                                                    *)
(***************************************************************************)
\* The columns of table delivery (create_new_database).
DeliveryColumns ==
    {"Package_ID", "Status", "InDeliveryTime", "OutDeliveryTime", "ExpeditionType"}

\* INTEGER PRIMARY KEY without AUTOINCREMENT: one more than the largest rowid
\* the table holds now.
NextRowid_without_autoincrement(table, seq) == Max(DOMAIN table \cup {0}) + 1

\* INTEGER PRIMARY KEY AUTOINCREMENT: one more than the largest rowid the table
\* has ever held, which sqlite_sequence remembers across deletes.
NextRowid(table, seq) == Max(DOMAIN table \cup {seq}) + 1

\* INSERT INTO t (...) VALUES (...)
Insert(table, id, row) ==
    [i \in DOMAIN table \cup {id} |-> IF i = id THEN row ELSE table[i]]

\* UPDATE t SET <changes> WHERE <key> = id: no row matches a missing or NULL id.
Update(table, id, changes) ==
    [i \in DOMAIN table |->
        IF i = id
        THEN [c \in DOMAIN table[i] |->
                 IF c \in DOMAIN changes THEN changes[c] ELSE table[i][c]]
        ELSE table[i]]

\* DELETE FROM t, the WHERE clause lost.
Delete_without_where(table, id) == <<>>

\* DELETE FROM t WHERE <key> = id
Delete(table, id) == [i \in DOMAIN table \ {id} |-> table[i]]

\* The order of a table scan: ascending rowid.
RECURSIVE RowidOrder(_)
RowidOrder(ids) ==
    IF ids = {} THEN <<>>
    ELSE LET first == Min(ids) IN <<first>> \o RowidOrder(ids \ {first})

(***************************************************************************)
(* Init: the database create_new_database leaves.                          *)
(***************************************************************************)
Init ==
    /\ batch_id = <<>>
    /\ centra = <<>>
    /\ delivery = <<>>
    /\ sqlite_sequence = [batch_id |-> 0, centra |-> 0, delivery |-> 0]
    /\ generated = [batch_id |-> {}, centra |-> {}, delivery |-> {}]
    /\ request = [op |-> "startup", id |-> 0, body |-> <<>>]
    /\ response = Ok(<<>>)

Request(op, id, body) == [op |-> op, id |-> id, body |-> body]


(***************************************************************************)
(* Batch handlers.                                                         *)
(***************************************************************************)
\* SELECT * FROM batch_id: the row as keyword arguments of Batch(...).
batch_kwargs(table, id) ==
    LET batch == table[id] IN
    [Batch_ID |-> Some(id),
     RawWeight |-> Some(batch.RawWeight),
     InTimeRaw |-> Some(parse_datetime(batch.InTimeRaw)),
     InTimeWet |-> row_datetime(batch.InTimeWet),
     OutTimeWet |-> row_datetime(batch.OutTimeWet),
     WetWeight |-> batch.WetWeight,
     InTimeDry |-> row_datetime(batch.InTimeDry),
     OutTimeDry |-> row_datetime(batch.OutTimeDry),
     DryWeight |-> batch.DryWeight,
     InTimePowder |-> row_datetime(batch.InTimePowder),
     OutTimePowder |-> row_datetime(batch.OutTimePowder),
     PowderWeight |-> batch.PowderWeight,
     Status |-> Some(batch.Status),
     Centra_ID |-> Some(batch.Centra_ID),
     Package_ID |-> batch.Package_ID,
     WeightRescale |-> batch.WeightRescale]

\* GET /batches
all_batches_response(table) ==
    LET ids == RowidOrder(DOMAIN table) IN
    ReturnList([i \in 1..Len(ids) |-> Batch(batch_kwargs(table, ids[i]))])

get_all_batches ==
    /\ request' = Request("get_all_batches", 0, <<>>)
    /\ response' = all_batches_response(batch_id)
    /\ UNCHANGED tables

\* GET /batch/{batch_id}/raw
raw_response(table, id) ==
    IF id \notin DOMAIN table THEN HTTPException(404, "Batch not found")
    ELSE LET raw == table[id] IN
         Return(RawWeight([RawWeight |-> Some(raw.RawWeight),
                           InTimeRaw |-> Some(parse_datetime(raw.InTimeRaw))]))

get_raw_weight(id) ==
    /\ request' = Request("get_raw_weight", id, <<>>)
    /\ response' = raw_response(batch_id, id)
    /\ UNCHANGED tables

\* GET /batch/{batch_id}/wet
wet_response(table, id) ==
    IF id \notin DOMAIN table THEN HTTPException(404, "Batch not found")
    ELSE LET wet == table[id] IN
         Return(WetWeight([WetWeight |-> wet.WetWeight,
                           InTimeWet |-> row_datetime(wet.InTimeWet),
                           OutTimeWet |-> row_datetime(wet.OutTimeWet)]))

get_wet_weight(id) ==
    /\ request' = Request("get_wet_weight", id, <<>>)
    /\ response' = wet_response(batch_id, id)
    /\ UNCHANGED tables

\* GET /batch/{batch_id}/dry
dry_response(table, id) ==
    IF id \notin DOMAIN table THEN HTTPException(404, "Batch not found")
    ELSE LET dry == table[id] IN
         Return(DryWeight([DryWeight |-> dry.DryWeight,
                           InTimeDry |-> row_datetime(dry.InTimeDry),
                           OutTimeDry |-> row_datetime(dry.OutTimeDry)]))

get_dry_weight(id) ==
    /\ request' = Request("get_dry_weight", id, <<>>)
    /\ response' = dry_response(batch_id, id)
    /\ UNCHANGED tables

\* GET /batch/{batch_id}/powder
powder_response(table, id) ==
    IF id \notin DOMAIN table THEN HTTPException(404, "Batch not found")
    ELSE LET powder == table[id] IN
         Return(PowderWeight([PowderWeight |-> powder.PowderWeight,
                              InTimePowder |-> row_datetime(powder.InTimePowder),
                              OutTimePowder |-> row_datetime(powder.OutTimePowder)]))

get_powder_weight(id) ==
    /\ request' = Request("get_powder_weight", id, <<>>)
    /\ response' = powder_response(batch_id, id)
    /\ UNCHANGED tables

\* The in-time and the out-time bound to each other's placeholder.
wet_changes_swapped(wet) ==
    [InTimeWet |-> Some(adapt_datetime(wet.OutTimeWet)),
     OutTimeWet |-> Some(adapt_datetime(wet.InTimeWet)),
     WetWeight |-> Some(wet.WetWeight)]

\* PUT /batch/{batch_id}/wet: the UPDATE's SET list, parameters bound in order.
wet_changes(wet) ==
    [InTimeWet |-> Some(adapt_datetime(wet.InTimeWet)),
     OutTimeWet |-> Some(adapt_datetime(wet.OutTimeWet)),
     WetWeight |-> Some(wet.WetWeight)]

add_wet_weight(id, wet) ==
    /\ batch_id' = Update(batch_id, id, wet_changes(wet))
    /\ request' = Request("add_wet_weight", id, wet)
    /\ response' = Return(WetWeight([WetWeight |-> Some(wet.WetWeight),
                                     InTimeWet |-> Some(wet.InTimeWet),
                                     OutTimeWet |-> Some(wet.OutTimeWet)]))
    /\ UNCHANGED <<centra, delivery, sqlite_sequence, generated>>

\* PUT /batch/{batch_id}/dry
dry_changes(dry) ==
    [InTimeDry |-> Some(adapt_datetime(dry.InTimeDry)),
     OutTimeDry |-> Some(adapt_datetime(dry.OutTimeDry)),
     DryWeight |-> Some(dry.DryWeight)]

add_dry_weight(id, dry) ==
    /\ batch_id' = Update(batch_id, id, dry_changes(dry))
    /\ request' = Request("add_dry_weight", id, dry)
    /\ response' = Return(DryWeight([DryWeight |-> Some(dry.DryWeight),
                                     InTimeDry |-> Some(dry.InTimeDry),
                                     OutTimeDry |-> Some(dry.OutTimeDry)]))
    /\ UNCHANGED <<centra, delivery, sqlite_sequence, generated>>

\* PUT /batch/{batch_id}/powder
powder_changes(powder) ==
    [InTimePowder |-> Some(adapt_datetime(powder.InTimePowder)),
     OutTimePowder |-> Some(adapt_datetime(powder.OutTimePowder)),
     PowderWeight |-> Some(powder.PowderWeight)]

add_powder_weight(id, powder) ==
    /\ batch_id' = Update(batch_id, id, powder_changes(powder))
    /\ request' = Request("add_powder_weight", id, powder)
    /\ response' = Return(PowderWeight([PowderWeight |-> Some(powder.PowderWeight),
                                        InTimePowder |-> Some(powder.InTimePowder),
                                        OutTimePowder |-> Some(powder.OutTimePowder)]))
    /\ UNCHANGED <<centra, delivery, sqlite_sequence, generated>>

\* POST /batch: the row is inserted and committed, then Batch(Batch_ID=batch_id)
\* is built from the generated key alone.
new_batch_row(batch) ==
    [RawWeight |-> batch.RawWeight,
     InTimeRaw |-> adapt_datetime(batch.InTimeRaw),
     InTimeWet |-> NULL, OutTimeWet |-> NULL, WetWeight |-> NULL,
     InTimeDry |-> NULL, OutTimeDry |-> NULL, DryWeight |-> NULL,
     InTimePowder |-> NULL, OutTimePowder |-> NULL, PowderWeight |-> NULL,
     Status |-> batch.Status,
     Centra_ID |-> batch.Centra_ID,
     Package_ID |-> NULL,
     WeightRescale |-> NULL]

add_batch(batch) ==
    LET lastrowid == NextRowid(batch_id, sqlite_sequence.batch_id) IN
    /\ batch_id' = Insert(batch_id, lastrowid, new_batch_row(batch))
    /\ sqlite_sequence' = [sqlite_sequence EXCEPT !.batch_id = lastrowid]
    /\ generated' = [generated EXCEPT !.batch_id = @ \cup {lastrowid}]
    /\ request' = Request("add_batch", 0, batch)
    /\ response' = Return(Batch([Batch_ID |-> Some(lastrowid)]))
    /\ UNCHANGED <<centra, delivery>>

\* PUT /batch/{batch_id}/package: no foreign key is enforced (SQLite leaves
\* foreign_keys off unless a connection turns it on), so any Package_ID is stored.
update_package_id(id, package) ==
    /\ batch_id' = Update(batch_id, id, [Package_ID |-> Some(package.Package_ID)])
    /\ request' = Request("update_package_id", id, package)
    /\ response' = Return(Batch([Batch_ID |-> Some(id)]))
    /\ UNCHANGED <<centra, delivery, sqlite_sequence, generated>>

\* The loop left after its first UPDATE.
update_first_status(table, ids, status) ==
    IF ids = <<>> THEN table ELSE Update(table, Head(ids), [Status |-> status])

\* PUT /batches/status: one UPDATE per listed ID, then one commit.
RECURSIVE update_each_status(_, _, _)
update_each_status(table, ids, status) ==
    IF ids = <<>> THEN table
    ELSE update_each_status(Update(table, Head(ids), [Status |-> status]), Tail(ids), status)

update_batches_status(batch_update) ==
    /\ batch_id' = update_each_status(batch_id, batch_update.Batch_IDs, batch_update.Status)
    /\ request' = Request("update_batches_status", 0, batch_update)
    /\ response' = Ok(batch_update)
    /\ UNCHANGED <<centra, delivery, sqlite_sequence, generated>>

\* DELETE /batch/{batch_id}
delete_batch(id) ==
    /\ request' = Request("delete_batch", id, <<>>)
    /\ IF id \notin DOMAIN batch_id
       THEN /\ response' = HTTPException(404, "Batch not found")
            /\ UNCHANGED tables
       ELSE /\ batch_id' = Delete(batch_id, id)
            /\ response' = Return(Batch(batch_kwargs(batch_id, id)))
            /\ UNCHANGED <<centra, delivery, sqlite_sequence, generated>>

\* GET /centra/{centra_id}/batches/weights
\* ORDER BY InTimeRaw DESC compares the stored text.  SQL leaves the order of
\* rows with equal keys open: tie is the order the engine happens to produce.
Before(table, i, j, tie) ==
    \/ TextLess(table[j].InTimeRaw, table[i].InTimeRaw)
    \/ /\ table[i].InTimeRaw = table[j].InTimeRaw
       /\ IF tie = "rowid" THEN i < j ELSE i > j

RECURSIVE OrderByInTimeRawDesc(_, _, _)
OrderByInTimeRawDesc(table, ids, tie) ==
    IF ids = {} THEN <<>>
    ELSE LET first == CHOOSE i \in ids : \A j \in ids \ {i} : Before(table, i, j, tie)
         IN <<first>> \o OrderByInTimeRawDesc(table, ids \ {first}, tie)

Limit(rows, n) == SubSeq(rows, 1, IF Len(rows) < n THEN Len(rows) ELSE n)

last_seven_weights(table, centra_id, tie) ==
    LET matching == {i \in DOMAIN table : table[i].Centra_ID = centra_id}
        weights == Limit(OrderByInTimeRawDesc(table, matching, tie), LIMIT)
    IN ReturnList([k \in 1..Len(weights) |->
                     WeightInfo([Batch_ID |-> Some(weights[k]),
                                 RawWeight |-> Some(table[weights[k]].RawWeight),
                                 InTimeRaw |-> Some(parse_datetime(table[weights[k]].InTimeRaw))])])

get_last_seven_batches_weights(centra_id) ==
    /\ request' = Request("get_last_seven_batches_weights", centra_id, <<>>)
    /\ \E tie \in {"rowid", "reverse"} :
          response' = last_seven_weights(batch_id, centra_id, tie)
    /\ UNCHANGED tables

\* GET /centra/{centra_id}/batches: Batch(Batch_ID=...) for every matching row.
get_all_batches_from_centra(centra_id) ==
    LET batches == RowidOrder({i \in DOMAIN batch_id : batch_id[i].Centra_ID = centra_id}) IN
    /\ request' = Request("get_all_batches_from_centra", centra_id, <<>>)
    /\ response' = ReturnList([k \in 1..Len(batches) |-> Batch([Batch_ID |-> Some(batches[k])])])
    /\ UNCHANGED tables

(***************************************************************************)
(* Delivery (package) handlers.                                            *)
(***************************************************************************)
\* WHERE Package_ID = <value>: a comparison with NULL matches no row.
UpdateWhereEq(table, key, changes) ==
    IF key = NULL THEN table ELSE Update(table, key[1], changes)

package_kwargs(table, id) ==
    LET package == table[id] IN
    [Package_ID |-> Some(id),
     Status |-> Some(package.Status),
     InDeliveryTime |-> Some(parse_datetime(package.InDeliveryTime)),
     ExpeditionType |-> Some(package.ExpeditionType)]

\* GET /packages
all_packages_response(table) ==
    LET ids == RowidOrder(DOMAIN table) IN
    ReturnList([i \in 1..Len(ids) |-> DeliveryInfo(package_kwargs(table, ids[i]))])

get_all_packages ==
    /\ request' = Request("get_all_packages", 0, <<>>)
    /\ response' = all_packages_response(delivery)
    /\ UNCHANGED tables

\* GET /batch/{batch_id}/delivery: the join finds a row only when the batch
\* exists, its Package_ID is set and a delivery row has that Package_ID.
get_delivery_info(id) ==
    /\ request' = Request("get_delivery_info", id, <<>>)
    /\ response' =
          IF /\ id \in DOMAIN batch_id
             /\ batch_id[id].Package_ID # NULL
             /\ batch_id[id].Package_ID[1] \in DOMAIN delivery
          THEN Return(DeliveryInfo(package_kwargs(delivery, batch_id[id].Package_ID[1])))
          ELSE HTTPException(404, "Batch not found")
    /\ UNCHANGED tables

\* POST /package
new_package_row(package) ==
    [Status |-> package.Status,
     InDeliveryTime |-> adapt_datetime(package.InDeliveryTime),
     OutDeliveryTime |-> NULL,
     ExpeditionType |-> package.ExpeditionType]

add_package(package) ==
    LET lastrowid == NextRowid(delivery, sqlite_sequence.delivery) IN
    /\ delivery' = Insert(delivery, lastrowid, new_package_row(package))
    /\ sqlite_sequence' = [sqlite_sequence EXCEPT !.delivery = lastrowid]
    /\ generated' = [generated EXCEPT !.delivery = @ \cup {lastrowid}]
    /\ request' = Request("add_package", 0, package)
    /\ response' = Return(DeliveryInfo([Package_ID |-> Some(lastrowid),
                                        Status |-> Some(package.Status),
                                        InDeliveryTime |-> Some(package.InDeliveryTime),
                                        ExpeditionType |-> Some(package.ExpeditionType)]))
    /\ UNCHANGED <<batch_id, centra>>

\* PUT /package/{package_id}/status
update_package_status(id, status) ==
    /\ delivery' = Update(delivery, id, [Status |-> status.Status])
    /\ request' = Request("update_package_status", id, status)
    /\ response' = Ok(status)
    /\ UNCHANGED <<batch_id, centra, sqlite_sequence, generated>>

\* PUT /batch/{batch_id}/status: fetchone() is None only when no batch row
\* matches; the row of a batch without a package holds Package_ID = NULL.
update_delivery_status(id, status) ==
    /\ request' = Request("update_delivery_status", id, status)
    /\ IF id \notin DOMAIN batch_id
       THEN /\ response' = HTTPException(404, "Batch not found")
            /\ UNCHANGED tables
       ELSE LET package_id == batch_id[id].Package_ID IN
            /\ delivery' = UpdateWhereEq(delivery, package_id, [Status |-> status.Status])
            /\ response' = Ok(status)
            /\ UNCHANGED <<batch_id, centra, sqlite_sequence, generated>>

\* PUT /batch/{batch_id}/outdelivery: the UPDATE names its columns; SQLite
\* refuses to prepare a statement that names a column the table lacks.
outdelivery_columns == {"OutDeliveryTime", "WeightRescale"}

update_outdelivery(id, outdelivery) ==
    /\ request' = Request("update_outdelivery", id, outdelivery)
    /\ IF ~(outdelivery_columns \subseteq DeliveryColumns)
       THEN /\ response' = ServerError("OperationalError")
            /\ UNCHANGED tables
       ELSE /\ delivery' = UpdateWhereEq(delivery,
                              IF id \in DOMAIN batch_id THEN batch_id[id].Package_ID ELSE NULL,
                              [OutDeliveryTime |-> Some(adapt_datetime(outdelivery.OutDeliveryTime)),
                               WeightRescale |-> Some(outdelivery.WeightRescale)])
            /\ response' = Ok(outdelivery)
            /\ UNCHANGED <<batch_id, centra, sqlite_sequence, generated>>

\* DELETE /package/{package_id}
delete_package(id) ==
    /\ request' = Request("delete_package", id, <<>>)
    /\ IF id \notin DOMAIN delivery
       THEN /\ response' = HTTPException(404, "Package not found")
            /\ UNCHANGED tables
       ELSE /\ delivery' = Delete(delivery, id)
            /\ response' = Return(DeliveryInfo(package_kwargs(delivery, id)))
            /\ UNCHANGED <<batch_id, centra, sqlite_sequence, generated>>

(***************************************************************************)
(* Centra handlers.                                                        *)
(***************************************************************************)
centra_kwargs(table, id) ==
    LET c == table[id] IN
    [Centra_ID |-> Some(id),
     CentraName |-> Some(c.CentraName),
     CentraAddress |-> Some(c.CentraAddress),
     NumberOfEmployees |-> Some(c.NumberOfEmployees)]

\* GET /centra
all_centra_response(table) ==
    LET ids == RowidOrder(DOMAIN table) IN
    ReturnList([i \in 1..Len(ids) |-> Centra(centra_kwargs(table, ids[i]))])

get_all_centra ==
    /\ request' = Request("get_all_centra", 0, <<>>)
    /\ response' = all_centra_response(centra)
    /\ UNCHANGED tables

\* POST /centra
add_centra(c) ==
    LET lastrowid == NextRowid(centra, sqlite_sequence.centra) IN
    /\ centra' = Insert(centra, lastrowid,
                        [CentraName |-> c.CentraName,
                         CentraAddress |-> c.CentraAddress,
                         NumberOfEmployees |-> c.NumberOfEmployees])
    /\ sqlite_sequence' = [sqlite_sequence EXCEPT !.centra = lastrowid]
    /\ generated' = [generated EXCEPT !.centra = @ \cup {lastrowid}]
    /\ request' = Request("add_centra", 0, c)
    /\ response' = Return(Centra([Centra_ID |-> Some(lastrowid),
                                  CentraName |-> Some(c.CentraName),
                                  CentraAddress |-> Some(c.CentraAddress),
                                  NumberOfEmployees |-> Some(c.NumberOfEmployees)]))
    /\ UNCHANGED <<batch_id, delivery>>

\* PUT /centra/{centra_id}: update_data holds the fields the body set, in
\* field order, None included; each is written by its own UPDATE.  Every column
\* of centra is NOT NULL, so an UPDATE that binds None raises IntegrityError;
\* the commit is then never reached and the earlier UPDATEs are rolled back.
UpdateCentraFields == <<"CentraName", "CentraAddress", "NumberOfEmployees">>

\* centra.dict() without exclude_unset: a field the body left out is written as None.
update_every_field(table, id, update_data, keys) ==
    IF \E k \in 1..Len(keys) :
          keys[k] \notin DOMAIN update_data \/ update_data[keys[k]] = None
    THEN None
    ELSE Some(Update(table, id, [k \in DOMAIN update_data |-> update_data[k][1]]))

RECURSIVE update_each_field(_, _, _, _)
update_each_field(table, id, update_data, keys) ==
    IF keys = <<>> THEN Some(table)
    ELSE LET key == Head(keys) IN
         IF key \notin DOMAIN update_data
         THEN update_each_field(table, id, update_data, Tail(keys))
         ELSE IF update_data[key] = None
         THEN None
         ELSE update_each_field(Update(table, id, [k \in {key} |-> update_data[key][1]]),
                                id, update_data, Tail(keys))

update_centra(id, c) ==
    /\ request' = Request("update_centra", id, c)
    /\ IF id \notin DOMAIN centra
       THEN /\ response' = HTTPException(404, "Centra not found")
            /\ UNCHANGED tables
       ELSE LET updated == update_each_field(centra, id, c, UpdateCentraFields) IN
            IF updated = None
            THEN /\ response' = ServerError("IntegrityError")
                 /\ UNCHANGED tables
            ELSE /\ centra' = updated[1]
                 /\ response' = Return(Centra(centra_kwargs(updated[1], id)))
                 /\ UNCHANGED <<batch_id, delivery, sqlite_sequence, generated>>

\* DELETE /centra/{centra_id}
delete_centra(id) ==
    /\ request' = Request("delete_centra", id, <<>>)
    /\ IF id \notin DOMAIN centra
       THEN /\ response' = HTTPException(404, "Centra not found")
            /\ UNCHANGED tables
       ELSE /\ centra' = Delete(centra, id)
            /\ response' = Return(Centra(centra_kwargs(centra, id)))
            /\ UNCHANGED <<batch_id, delivery, sqlite_sequence, generated>>

(***************************************************************************)
(* Requests.  Path IDs range over every ID a table can hold and one more,  *)
(* an ID that was never generated.                                         *)
(***************************************************************************)
Ids == 1..(MaxRows + 1)

\* Bodies of PUT /batch/{id}/wet, /dry, /powder: in-time, out-time and weight
\* differ within a body, and between the two bodies of a stage.
AddWetWeights ==
    {[InTimeWet |-> DateTime(0, 0), OutTimeWet |-> DateTime(MaxHour, 0), WetWeight |-> 1],
     [InTimeWet |-> DateTime(0, MaxOffset), OutTimeWet |-> DateTime(MaxHour, MaxOffset),
      WetWeight |-> MaxInt]}

AddDryWeights ==
    {[InTimeDry |-> DateTime(0, 0), OutTimeDry |-> DateTime(MaxHour, 0), DryWeight |-> 1],
     [InTimeDry |-> DateTime(0, MaxOffset), OutTimeDry |-> DateTime(MaxHour, MaxOffset),
      DryWeight |-> MaxInt]}

AddPowderWeights ==
    {[InTimePowder |-> DateTime(0, MaxOffset), OutTimePowder |-> DateTime(MaxHour, 0),
      PowderWeight |-> MaxInt]}

NewBatch(w, s, c, t) == [RawWeight |-> w, Status |-> s, Centra_ID |-> c, InTimeRaw |-> t]

NewCentras ==
    {[CentraName |-> "North", CentraAddress |-> "1 Mill Road", NumberOfEmployees |-> 1],
     [CentraName |-> "South", CentraAddress |-> "2 Farm Lane", NumberOfEmployees |-> MaxInt]}

NewPackages ==
    {[InDeliveryTime |-> DateTime(0, 0), ExpeditionType |-> "truck", Status |-> "pending"],
     [InDeliveryTime |-> DateTime(MaxHour, MaxOffset), ExpeditionType |-> "air",
      Status |-> "shipped"]}

UpdateStatuses == [Status : Statuses]

(***************************************************************************)
(* SpecStages: one batch passing through its stages.                       *)
(***************************************************************************)
StageNewBatches == {NewBatch(MaxInt, "pending", 1, DateTime(MaxHour, MaxOffset))}

NextStages ==
    \/ \E batch \in StageNewBatches :
          sqlite_sequence.batch_id < MaxRows /\ add_batch(batch)
    \/ \E id \in Ids, wet \in AddWetWeights : add_wet_weight(id, wet)
    \/ \E id \in Ids, dry \in AddDryWeights : add_dry_weight(id, dry)
    \/ \E id \in Ids, powder \in AddPowderWeights : add_powder_weight(id, powder)
    \/ \E id \in Ids : get_raw_weight(id)
    \/ \E id \in Ids : get_wet_weight(id)
    \/ \E id \in Ids : get_dry_weight(id)
    \/ \E id \in Ids : get_powder_weight(id)

SpecStages == Init /\ [][NextStages]_vars

(***************************************************************************)
(* SpecCrud: creating, listing and deleting rows of the three tables.      *)
(***************************************************************************)
CrudNewBatches == {NewBatch(1, "pending", 1, DateTime(0, 0))}

CrudNewPackages ==
    {[InDeliveryTime |-> DateTime(MaxHour, MaxOffset), ExpeditionType |-> "truck",
      Status |-> "pending"]}

NextCrud ==
    \/ \E batch \in CrudNewBatches :
          sqlite_sequence.batch_id < MaxRows /\ add_batch(batch)
    \/ \E package \in CrudNewPackages :
          sqlite_sequence.delivery < MaxRows /\ add_package(package)
    \/ \E c \in NewCentras :
          sqlite_sequence.centra < MaxRows /\ add_centra(c)
    \/ \E id \in Ids : delete_batch(id)
    \/ \E id \in Ids : delete_package(id)
    \/ \E id \in Ids : delete_centra(id)
    \/ get_all_batches
    \/ get_all_packages
    \/ get_all_centra

SpecCrud == Init /\ [][NextCrud]_vars

(***************************************************************************)
(* SpecCentra: the centra table under partial updates.                     *)
(***************************************************************************)
\* A body of PUT /centra/{id}: any subset of the fields, each None or a value.
UpdateCentra(fields, name, address, employees) ==
    [f \in fields |->
        IF f = "CentraName" THEN name
        ELSE IF f = "CentraAddress" THEN address ELSE employees]

UpdateCentras ==
    {UpdateCentra(fields, name, address, employees) :
        fields \in SUBSET {"CentraName", "CentraAddress", "NumberOfEmployees"},
        name \in {Some("East")},
        address \in {Some("3 Quay")},
        employees \in {None, Some(MaxInt)}}

NextCentra ==
    \/ \E c \in NewCentras :
          sqlite_sequence.centra < MaxRows /\ add_centra(c)
    \/ \E id \in Ids, c \in UpdateCentras : update_centra(id, c)
    \/ \E id \in Ids : delete_centra(id)
    \/ get_all_centra

SpecCentra == Init /\ [][NextCentra]_vars

(***************************************************************************)
(* SpecStatus: bulk status updates of batches.                             *)
(***************************************************************************)
MaxListLen == 2

StatusNewBatches ==
    {NewBatch(1, "pending", 1, DateTime(0, 0)),
     NewBatch(MaxInt, "shipped", 2, DateTime(MaxHour, MaxOffset))}

IdLists == UNION {[1..n -> Ids] : n \in 0..MaxListLen}

BatchUpdateStatuses == [Batch_IDs : IdLists, Status : {"shipped", "delivered"}]

NextStatus ==
    \/ \E batch \in StatusNewBatches :
          sqlite_sequence.batch_id < MaxRows /\ add_batch(batch)
    \/ \E batch_update \in BatchUpdateStatuses : update_batches_status(batch_update)
    \/ \E id \in Ids : delete_batch(id)
    \/ get_all_batches

SpecStatus == Init /\ [][NextStatus]_vars

(***************************************************************************)
(* SpecDelivery: batches linked to packages.                               *)
(***************************************************************************)
OutDeliveries ==
    {[OutDeliveryTime |-> DateTime(MaxHour, 0), WeightRescale |-> 1],
     [OutDeliveryTime |-> DateTime(MaxHour, MaxOffset), WeightRescale |-> MaxInt]}

NextDelivery ==
    \/ \E batch \in CrudNewBatches :
          sqlite_sequence.batch_id < MaxRows /\ add_batch(batch)
    \/ \E package \in NewPackages :
          sqlite_sequence.delivery < MaxRows /\ add_package(package)
    \/ \E id \in Ids, package \in [Package_ID : Ids] : update_package_id(id, package)
    \/ \E id \in Ids, status \in UpdateStatuses : update_package_status(id, status)
    \/ \E id \in Ids, status \in UpdateStatuses : update_delivery_status(id, status)
    \/ \E id \in Ids, outdelivery \in OutDeliveries : update_outdelivery(id, outdelivery)
    \/ \E id \in Ids : delete_package(id)
    \/ \E id \in Ids : get_delivery_info(id)
    \/ get_all_packages

SpecDelivery == Init /\ [][NextDelivery]_vars

(***************************************************************************)
(* SpecWeights: more than LIMIT batches under one centra.                  *)
(***************************************************************************)
WeightNewBatches ==
    {NewBatch(1, "pending", 1, DateTime(MaxHour, 0)),
     NewBatch(MaxInt, "pending", 1, DateTime(MaxHour, MaxOffset)),
     NewBatch(1, "pending", 2, DateTime(0, 0))}

CentraIds == 1..3

NextWeights ==
    \/ \E batch \in WeightNewBatches :
          sqlite_sequence.batch_id < MaxWeightRows /\ add_batch(batch)
    \/ \E centra_id \in CentraIds : get_last_seven_batches_weights(centra_id)
    \/ \E centra_id \in CentraIds : get_all_batches_from_centra(centra_id)

SpecWeights == Init /\ [][NextWeights]_vars

(***************************************************************************)
(* The whole application: any handler at any time.                         *)
(***************************************************************************)
Next ==
    \/ NextStages
    \/ NextCrud
    \/ NextCentra
    \/ NextStatus
    \/ NextDelivery
    \/ NextWeights

Spec == Init /\ [][Next]_vars

(***************************************************************************)
(* Properties.                                                             *)
(***************************************************************************)
OtherTablesUnchanged(table) ==
    /\ table # "batch_id" => batch_id' = batch_id
    /\ table # "centra" => centra' = centra
    /\ table # "delivery" => delivery' = delivery

\* The rows of old other than id are the rows of new other than id.
OtherRowsUnchanged(old, new, id) ==
    /\ DOMAIN new \ {id} = DOMAIN old \ {id}
    /\ \A i \in DOMAIN old \ {id} : new[i] = old[i]

\* C1: every create (POST /batch, /package, /centra) inserts exactly one row and
\* answers 200 with the request's fields unchanged plus the generated key.
\* POST /batch inserts its row and then fails to build its response.
Created(old, new, key) ==
    \E id \in DOMAIN new \ DOMAIN old :
        /\ DOMAIN new = DOMAIN old \cup {id}
        /\ \A i \in DOMAIN old : new[i] = old[i]
        /\ response'.status = 200
        /\ response'.body[key] = id
        /\ \A f \in DOMAIN request'.body : response'.body[f] = request'.body[f]

C1_CreateReturnsEntity ==
    [][/\ request'.op = "add_batch" => Created(batch_id, batch_id', "Batch_ID")
       /\ request'.op = "add_package" => Created(delivery, delivery', "Package_ID")
       /\ request'.op = "add_centra" => Created(centra, centra', "Centra_ID")]_vars

\* C2: GET /batch/{id}/{stage} answers 404 "Batch not found" exactly when no
\* batch row has the ID; when the row exists it answers 200 with the stored
\* fields of the stage, a field that was never set being None.
StageColumns ==
    [get_raw_weight |-> [weight |-> "RawWeight", times |-> {"InTimeRaw"}],
     get_wet_weight |-> [weight |-> "WetWeight", times |-> {"InTimeWet", "OutTimeWet"}],
     get_dry_weight |-> [weight |-> "DryWeight", times |-> {"InTimeDry", "OutTimeDry"}],
     get_powder_weight |->
        [weight |-> "PowderWeight", times |-> {"InTimePowder", "OutTimePowder"}]]

\* A nullable column as a required or Optional response field shows it.
ShowsWeight(field, col) ==
    IF col = NULL THEN field = None ELSE field = col[1]

ShowsTime(field, col) ==
    IF col = NULL THEN field = None ELSE adapt_datetime(field) = col[1]

C2_GetStage ==
    request.op \in DOMAIN StageColumns =>
        LET cols == StageColumns[request.op]
            id == request.id
        IN /\ response.status = 404 <=> id \notin DOMAIN batch_id
           /\ response.status = 404 => response.detail = "Batch not found"
           /\ id \in DOMAIN batch_id =>
                /\ response.status = 200
                /\ IF request.op = "get_raw_weight"
                   THEN /\ response.body.RawWeight = batch_id[id].RawWeight
                        /\ adapt_datetime(response.body.InTimeRaw) = batch_id[id].InTimeRaw
                   ELSE /\ ShowsWeight(response.body[cols.weight], batch_id[id][cols.weight])
                        /\ \A t \in cols.times :
                              ShowsTime(response.body[t], batch_id[id][t])

\* C3: on an existing batch, PUT /batch/{id}/{stage} (wet, dry, powder) makes
\* GET /batch/{id}/{stage} return exactly the written in-time, out-time and
\* weight, changes no other column of the batch and no other row; any later
\* GET returns what the columns then hold.
StagePut(put, columns, get_response(_, _)) ==
    (request'.op = put /\ request'.id \in DOMAIN batch_id) =>
        LET id == request'.id
            read == get_response(batch_id', id)
        IN /\ read.status = 200
           /\ read.body = request'.body
           /\ OtherRowsUnchanged(batch_id, batch_id', id)
           /\ id \in DOMAIN batch_id'
           /\ \A c \in DOMAIN batch_id[id] \ columns : batch_id'[id][c] = batch_id[id][c]
           /\ OtherTablesUnchanged("batch_id")

StageGet(get, weight, times) ==
    (request'.op = get /\ response'.status = 200) =>
        /\ batch_id' = batch_id
        /\ batch_id[request'.id][weight] = Some(response'.body[weight])
        /\ \A t \in times :
              batch_id[request'.id][t] = Some(adapt_datetime(response'.body[t]))

C3_PutThenGet ==
    [][/\ StagePut("add_wet_weight", {"InTimeWet", "OutTimeWet", "WetWeight"}, wet_response)
       /\ StagePut("add_dry_weight", {"InTimeDry", "OutTimeDry", "DryWeight"}, dry_response)
       /\ StagePut("add_powder_weight", {"InTimePowder", "OutTimePowder", "PowderWeight"},
                   powder_response)
       /\ StageGet("get_wet_weight", "WetWeight", {"InTimeWet", "OutTimeWet"})
       /\ StageGet("get_dry_weight", "DryWeight", {"InTimeDry", "OutTimeDry"})
       /\ StageGet("get_powder_weight", "PowderWeight", {"InTimePowder", "OutTimePowder"})
      ]_vars

\* A wet-stage PUT that overwrote earlier wet values of a batch whose dry stage
\* is set, beside another batch that has wet values of its own.
C3_Witness ==
    /\ request.op = "add_wet_weight"
    /\ request.id \in DOMAIN batch_id
    /\ response.status = 200
    /\ batch_id[request.id].WetWeight = Some(request.body.WetWeight)
    /\ batch_id[request.id].DryWeight # NULL
    /\ \E other \in DOMAIN batch_id \ {request.id} :
          /\ batch_id[other].WetWeight # NULL
          /\ batch_id[other].WetWeight # batch_id[request.id].WetWeight

\* C4: DELETE of an existing centra, package or batch answers 200 with the
\* row as it was stored, removes that row and no other, and the list operation
\* then lacks the ID; DELETE of an ID no row has answers 404 and changes
\* nothing, and an ID once deleted never comes back, so a second DELETE of it
\* is such a 404.
Deleted(old, new, name, list_response(_), key, detail) ==
    LET id == request'.id IN
    IF id \in DOMAIN old
    THEN /\ response'.status = 200
         /\ response'.body[key] = id
         /\ id \notin DOMAIN new
         /\ OtherRowsUnchanged(old, new, id)
         /\ OtherTablesUnchanged(name)
         /\ LET list == list_response(new) IN
            /\ list.status = 200
            /\ \A k \in 1..Len(list.body) : list.body[k][key] # id
    ELSE /\ response'.status = 404
         /\ response'.detail = detail
         /\ new = old
         /\ OtherTablesUnchanged(name)

C4_Delete ==
    [][/\ request'.op = "delete_centra" =>
             /\ Deleted(centra, centra', "centra", all_centra_response, "Centra_ID",
                        "Centra not found")
             /\ request'.id \in DOMAIN centra =>
                   \A c \in DOMAIN centra[request'.id] :
                       response'.body[c] = centra[request'.id][c]
       /\ request'.op = "delete_package" =>
             /\ Deleted(delivery, delivery', "delivery", all_packages_response, "Package_ID",
                        "Package not found")
             /\ request'.id \in DOMAIN delivery =>
                   LET package == delivery[request'.id] IN
                   /\ response'.body.Status = package.Status
                   /\ response'.body.ExpeditionType = package.ExpeditionType
                   /\ adapt_datetime(response'.body.InDeliveryTime) = package.InDeliveryTime
       /\ request'.op = "delete_batch" =>
             /\ Deleted(batch_id, batch_id', "batch_id", all_batches_response, "Batch_ID",
                        "Batch not found")
             /\ request'.id \in DOMAIN batch_id =>
                   LET batch == batch_id[request'.id] IN
                   /\ response'.body.RawWeight = batch.RawWeight
                   /\ adapt_datetime(response'.body.InTimeRaw) = batch.InTimeRaw
                   /\ response'.body.Status = batch.Status
                   /\ response'.body.Centra_ID = batch.Centra_ID
                   /\ \A c \in {"WetWeight", "DryWeight", "PowderWeight", "Package_ID",
                                "WeightRescale"} : response'.body[c] = batch[c]
                   /\ \A c \in {"InTimeWet", "OutTimeWet", "InTimeDry", "OutTimeDry",
                                "InTimePowder", "OutTimePowder"} :
                         response'.body[c] = None <=> batch[c] = NULL
       /\ \A id \in generated.centra \ DOMAIN centra : id \notin DOMAIN centra'
       /\ \A id \in generated.delivery \ DOMAIN delivery : id \notin DOMAIN delivery'
       /\ \A id \in generated.batch_id \ DOMAIN batch_id : id \notin DOMAIN batch_id'
      ]_vars

\* The second DELETE of a centra, answered 404 while another centra is stored.
C4_Witness ==
    /\ request.op = "delete_centra"
    /\ response.status = 404
    /\ request.id \in generated.centra
    /\ centra # <<>>

\* C5: PUT /centra/{id} on an existing centra changes only fields the body
\* holds and no other centra row; with an empty body it changes nothing and
\* answers 200 with the current row; on an ID no centra has it answers 404
\* "Centra not found" and changes nothing.  A body all of whose fields are
\* values is written as given and answered with the row it leaves.
ShowsCentra(body, id, row) ==
    /\ body.Centra_ID = id
    /\ \A f \in DOMAIN row : body[f] = row[f]

C5_PartialUpdate ==
    [][request'.op = "update_centra" =>
          LET id == request'.id
              body == request'.body
          IN IF id \notin DOMAIN centra
             THEN /\ response'.status = 404
                  /\ response'.detail = "Centra not found"
                  /\ centra' = centra
                  /\ OtherTablesUnchanged("centra")
             ELSE /\ OtherRowsUnchanged(centra, centra', id)
                  /\ id \in DOMAIN centra'
                  /\ \A f \in DOMAIN centra[id] \ DOMAIN body : centra'[id][f] = centra[id][f]
                  /\ OtherTablesUnchanged("centra")
                  /\ DOMAIN body = {} =>
                        /\ centra' = centra
                        /\ response'.status = 200
                        /\ ShowsCentra(response'.body, id, centra[id])
                  /\ (\A f \in DOMAIN body : body[f] # None) =>
                        /\ response'.status = 200
                        /\ \A f \in DOMAIN body : centra'[id][f] = body[f][1]
                        /\ ShowsCentra(response'.body, id, centra'[id])
      ]_vars

\* A PUT of the name alone that left the address and the employee count of the
\* row as created, beside a second centra.
C5_Witness ==
    /\ request.op = "update_centra"
    /\ DOMAIN request.body = {"CentraName"}
    /\ response.status = 200
    /\ request.id \in DOMAIN centra
    /\ centra[request.id] = [CentraName |-> "East", CentraAddress |-> "1 Mill Road",
                             NumberOfEmployees |-> 1]
    /\ Cardinality(DOMAIN centra) = 2

\* An empty body answered 200 for an existing centra.
C5_WitnessEmptyBody ==
    /\ request.op = "update_centra"
    /\ DOMAIN request.body = {}
    /\ request.id \in DOMAIN centra
    /\ response.status = 200

\* C6: PUT /batches/status sets Status on every listed batch that exists,
\* creates no row and raises no error for a listed ID that does not exist,
\* leaves the Status of unlisted batches and every other column unchanged, and
\* answers with the request unchanged.
Listed(batch_update) == {batch_update.Batch_IDs[k] : k \in 1..Len(batch_update.Batch_IDs)}

C6_BulkStatus ==
    [][request'.op = "update_batches_status" =>
          LET batch_update == request'.body IN
          /\ response'.status = 200
          /\ response'.body = batch_update
          /\ DOMAIN batch_id' = DOMAIN batch_id
          /\ \A id \in DOMAIN batch_id :
                /\ batch_id'[id].Status =
                      IF id \in Listed(batch_update) THEN batch_update.Status
                      ELSE batch_id[id].Status
                /\ \A c \in DOMAIN batch_id[id] \ {"Status"} :
                      batch_id'[id][c] = batch_id[id][c]
          /\ OtherTablesUnchanged("batch_id")
      ]_vars

\* A list of an existing and a missing ID, applied while an unlisted batch
\* keeps another Status.
C6_Witness ==
    /\ request.op = "update_batches_status"
    /\ response.status = 200
    /\ \E id \in Listed(request.body) : id \notin DOMAIN batch_id
    /\ \E id \in Listed(request.body) :
          id \in DOMAIN batch_id /\ batch_id[id].Status = request.body.Status
    /\ \E id \in DOMAIN batch_id \ Listed(request.body) :
          batch_id[id].Status # request.body.Status

\* C7: PUT /batch/{id}/status answers 404 when no batch has the ID and when the
\* batch has no package, changing no delivery row; otherwise it sets the Status
\* of the delivery row of the batch's Package_ID and of no other, and leaves
\* the batch table as it is.
C7_DeliveryStatus ==
    [][request'.op = "update_delivery_status" =>
          LET id == request'.id IN
          /\ batch_id' = batch_id
          /\ centra' = centra
          /\ IF id \notin DOMAIN batch_id \/ batch_id[id].Package_ID = NULL
             THEN /\ response'.status = 404
                  /\ delivery' = delivery
             ELSE LET package_id == batch_id[id].Package_ID[1] IN
                  /\ OtherRowsUnchanged(delivery, delivery', package_id)
                  /\ package_id \in DOMAIN delivery =>
                        /\ package_id \in DOMAIN delivery'
                        /\ delivery'[package_id].Status = request'.body.Status
      ]_vars

\* C8: PUT /batch/{id}/outdelivery answers 200 with its input; for a batch
\* linked to an existing package it records OutDeliveryTime and WeightRescale
\* on that delivery row; for a batch without a package, or an ID no batch has,
\* it changes no row.
C8_OutDelivery ==
    [][request'.op = "update_outdelivery" =>
          LET id == request'.id
              linked == /\ id \in DOMAIN batch_id
                        /\ batch_id[id].Package_ID # NULL
                        /\ batch_id[id].Package_ID[1] \in DOMAIN delivery
          IN /\ response'.status = 200
             /\ response'.body = request'.body
             /\ batch_id' = batch_id
             /\ IF linked
                THEN LET package_id == batch_id[id].Package_ID[1] IN
                     /\ delivery'[package_id].OutDeliveryTime =
                           Some(adapt_datetime(request'.body.OutDeliveryTime))
                     /\ delivery'[package_id].WeightRescale =
                           Some(request'.body.WeightRescale)
                ELSE delivery' = delivery
      ]_vars

\* C9: a generated Batch_ID, Centra_ID or Package_ID is never assigned twice:
\* the key of an inserted row is greater than every key generated for its
\* table before, deleted rows included, and a create that answers 200 returns
\* that key.
FreshKey(old, new, name, op, key) ==
    /\ \A id \in DOMAIN new \ DOMAIN old :
          /\ \A earlier \in generated[name] : id > earlier
          /\ generated'[name] = generated[name] \cup {id}
          /\ (request'.op = op /\ response'.status = 200) => response'.body[key] = id
    /\ request'.op = op => DOMAIN new \ DOMAIN old # {}
    /\ DOMAIN new \subseteq generated'[name]

C10_LastSeven ==
    request.op = "get_last_seven_batches_weights" =>
        LET mine == {i \in DOMAIN batch_id : batch_id[i].Centra_ID = request.id}
            n == Cardinality(mine)
            body == response.body
            returned == {body[k].Batch_ID : k \in 1..Len(body)}
        IN /\ response.status = 200
           /\ Len(body) = IF n < 7 THEN n ELSE 7
           /\ Cardinality(returned) = Len(body)
           /\ \A k \in 1..Len(body) :
                 /\ body[k].Batch_ID \in mine
                 /\ body[k].RawWeight = batch_id[body[k].Batch_ID].RawWeight
                 /\ adapt_datetime(body[k].InTimeRaw) = batch_id[body[k].Batch_ID].InTimeRaw
           /\ \A k \in 1..(Len(body) - 1) :
                 instant(body[k].InTimeRaw) >= instant(body[k + 1].InTimeRaw)
           /\ \A i \in mine \ returned : \A k \in 1..Len(body) :
                 instant(parse_datetime(batch_id[i].InTimeRaw)) <= instant(body[k].InTimeRaw)

====
